---- MODULE Spec2Model ----
(***************************************************************************)
(* The User CRUD service of PythonSQLAlchemyDemo: the Flask handlers of    *)
(* flask_mysql.py and the session_scope functions of main.py, run by       *)
(* concurrent callers against one users table.  A handler is cut into      *)
(* steps at its database round trips (the select / get, and the flush and  *)
(* commit that session.commit() performs), so that the steps of two        *)
(* requests interleave as the statements of two connections do.            *)
(***************************************************************************)
EXTENDS Integers, Sequences, FiniteSets, TLC

\* ---------------------------------------------------------------- bounds
\* Number of request slots served at the same time.
NReqs == 2
\* Largest id the autoincrement counter hands out in the model.
MaxId == 2

Reqs == 1..NReqs
Ids == 1..MaxId

\* ---------------------------------------------------------------- values
\* Python's None: what data.get("name") returns for a missing key.
None == "<None>"
\* Values a client sends for name and for email.
NameInputs == {None, "", "Alice"}
EmailInputs == {None, "", "a@x.com", "b@x.com"}
\* Ids a client puts in /users/<int:user_id>.
IdInputs == Ids

\* Python truthiness of a request field: `not v` holds of None and of "".
Falsy(v) == v \in {None, ""}

\* What session.get returns when no row matches.
NoUser == [id |-> 0, name |-> "", email |-> ""]

\* The attributes class User defines (its columns and __repr__).
UserAttrs == {"__tablename__", "id", "name", "email", "__repr__"}

VARIABLES
    table,     \* the rows of table users (committed state)
    nextId,    \* the table's AUTO_INCREMENT counter
    openSess,  \* the session handles that are open
    req,       \* per request slot: the request in flight and its position
    last       \* the request that returned last, with its outcome

vars == <<table, nextId, openSess, req, last>>

\* ------------------------------------------------------------- the table
EmailsOf(t) == {u.email : u \in t}
IdsOf(t) == {u.id : u \in t}

\* unique=True on User.email, primary_key=True on User.id.
UniqueEmails(t) == \A u, v \in t : u.email = v.email => u = v
UniqueIds(t) == \A u, v \in t : u.id = v.id => u = v

\* A lookup that ignores the key: session.scalars(select(User)).first().
Get_First(t, uid) == IF t = {} THEN NoUser ELSE CHOOSE u \in t : TRUE

\* session.get(User, user_id): the row with that primary key, or None.
Get(t, uid) ==
    IF \E u \in t : u.id = uid
    THEN CHOOSE u \in t : u.id = uid
    ELSE NoUser

\* select(User): the statement has no ORDER BY; the rows come as the scan of
\* the primary-key index returns them.
RECURSIVE ScanOrder(_)
ScanOrder(t) ==
    IF t = {} THEN <<>>
    ELSE LET first == CHOOSE u \in t : \A v \in t : u.id <= v.id
         IN <<first>> \o ScanOrder(t \ {first})

\* The email column declared without unique=True.
InsertRejected_NoUnique(t, email) == FALSE

\* INSERT INTO users (name, email): the unique index on email rejects a
\* duplicate (IntegrityError); the row gets the counter's value as its id,
\* and the counter moves on whether or not the row is accepted.
InsertRejected(t, email) == email \in EmailsOf(t)
Insert(t, id, name, email) == t \cup {[id |-> id, name |-> name, email |-> email]}

\* UPDATE users SET email = e WHERE id = uid.
UpdateMatches(t, uid) == uid \in IdsOf(t)
UpdateRejected(t, uid, email) == \E u \in t : u.id # uid /\ u.email = email
UpdateEmail(t, uid, email) ==
    {IF u.id = uid THEN [u EXCEPT !.email = email] ELSE u : u \in t}

\* A DELETE without its WHERE clause.
DeleteRow_All(t, uid) == {}

\* DELETE FROM users WHERE id = uid.
DeleteRow(t, uid) == {u \in t : u.id # uid}

\* ------------------------------------------------------------- sessions
\* Session(engine): a new session object per call, named here by the slot of
\* the caller that made it.
NewSession(r) == r

\* get_session(): Session(engine, expire_on_commit=False).
get_session(r) == NewSession(r)

\* A handler that never leaves its `with` block's session closed.
Close_Leak(open, s) == open

\* Session.__exit__: the session is closed and its connection released.
Close(open, s) == open \ {s}

\* Leaving `with get_session() as session`: Session.close() releases the
\* connection, which rolls back whatever the session has not committed.
SessionExit(tx) == IF tx = "commit" THEN "commit" ELSE "rollback"

\* Leaving `with session_scope() as session`: commit when the body did not
\* raise, rollback (and re-raise) when it did.
session_scope(raised) == IF raised THEN "rollback" ELSE "commit"

\* ------------------------------------------------------- serialization
\* u.to_dict(): an attribute lookup on class User.
HasToDict == "to_dict" \in UserAttrs
to_dict(u) == [id |-> u.id, name |-> u.name, email |-> u.email]

RECURSIVE MapToDict(_)
MapToDict(s) == IF s = <<>> THEN <<>> ELSE <<to_dict(Head(s))>> \o MapToDict(Tail(s))

\* ------------------------------------------------------------- requests
\* History: whether a row with primary key uid was in the table at the lookup.
Matched(t, uid) == IF uid \in {u.id : u \in t} THEN "yes" ELSE "no"

IdleReq ==
    [op |-> "idle", via |-> "none", pc |-> "idle",
     uid |-> 0, name |-> None, email |-> None,
     sid |-> 0, opened |-> FALSE, user |-> NoUser, found |-> "n/a",
     tx |-> "none", exc |-> "none", wrote |-> FALSE,
     dup |-> FALSE, gone |-> FALSE,
     status |-> 0, body |-> <<>>, err |-> "", ret |-> "none"]

Init ==
    /\ table = {}
    /\ nextId = 1
    /\ openSess = {}
    /\ req = [r \in Reqs |-> IdleReq]
    /\ last = IdleReq

\* A step that leaves the request in flight.
Step(r, q) == req' = [req EXCEPT ![r] = q] /\ last' = last

\* The step on which the handler returns: the slot is free for the next
\* request and the caller holds the outcome.
Complete(r, q) == req' = [req EXCEPT ![r] = IdleReq] /\ last' = q

\* The validation written with `and` for `or`.
CreateInvalid_And(name, email) == Falsy(name) /\ Falsy(email)

\* The handler's validation of create_user_api\* The handler's validation of create_user_api: `if not name or not email`.
CreateInvalid(name, email) == Falsy(name) \/ Falsy(email)

\* The handler's validation of update_user_api: `if not new_email`.
UpdateInvalid(email) == Falsy(email)

\* ------------------------------------------------- GET /users (list_users)
\* with get_session() as session: select(User), u.to_dict() for each row,
\* jsonify.  One database round trip.
ApiList(r) ==
    /\ req[r].pc = "idle"
    /\ LET s == get_session(r)
           rows == ScanOrder(table)
           raises == rows # <<>> /\ ~HasToDict
       IN /\ openSess' = Close(openSess \cup {s}, s)
          /\ Complete(r, [IdleReq EXCEPT !.op = "list", !.via = "api", !.pc = "done",
                         !.opened = TRUE, !.sid = 0,
                         !.tx = SessionExit("begun"),
                         !.exc = IF raises THEN "AttributeError" ELSE "none",
                         !.status = IF raises THEN 500 ELSE 200,
                         !.err = IF raises THEN "Internal Server Error" ELSE "",
                         !.body = IF raises THEN <<>> ELSE MapToDict(rows)])
    /\ UNCHANGED <<table, nextId>>

\* --------------------------------------------- POST /users (create_user_api)
\* Validation, then session.add(user); session.commit();
\* return jsonify(user.to_dict()), 201.  One database round trip.
ApiCreate(r, name, email) ==
    /\ req[r].pc = "idle"
    /\ IF CreateInvalid(name, email)
       THEN /\ Complete(r, [IdleReq EXCEPT !.op = "create", !.via = "api",
                              !.pc = "done", !.name = name, !.email = email,
                              !.status = 400, !.err = "name and email required"])
            /\ UNCHANGED <<table, nextId, openSess>>
       ELSE /\ nextId <= MaxId
            /\ LET s == get_session(r)
                   rejected == InsertRejected(table, email)
                   t2 == IF rejected THEN table ELSE Insert(table, nextId, name, email)
                   user == [id |-> nextId, name |-> name, email |-> email]
                   tx == IF rejected THEN "rollback" ELSE "commit"
                   exc == IF rejected THEN "IntegrityError"
                          ELSE IF ~HasToDict THEN "AttributeError" ELSE "none"
               IN /\ table' = t2
                  /\ openSess' = Close(openSess \cup {s}, s)
                  /\ Complete(r, [IdleReq EXCEPT !.op = "create", !.via = "api",
                                    !.pc = "done", !.name = name, !.email = email,
                                    !.opened = TRUE, !.sid = 0,
                                    !.user = IF rejected THEN NoUser ELSE user,
                                    !.dup = (email \in {u.email : u \in table}),
                                    !.wrote = (t2 # table),
                                    !.tx = SessionExit(tx),
                                    !.exc = exc,
                                    !.status = IF exc = "none" THEN 201 ELSE 500,
                                    !.err = IF exc = "none" THEN ""
                                            ELSE "Internal Server Error",
                                    !.body = IF exc = "none" THEN <<to_dict(user)>>
                                             ELSE <<>>])
            /\ nextId' = nextId + 1

\* --------------------------------- PATCH /users/<id> (update_user_api)
\* Validation, then user = session.get(User, user_id): 404 when there is
\* none, else user.email = new_email and the request goes on to its commit.
ApiUpdateGet(r, uid, email) ==
    /\ req[r].pc = "idle"
    /\ IF UpdateInvalid(email)
       THEN /\ Complete(r, [IdleReq EXCEPT !.op = "update", !.via = "api",
                              !.pc = "done", !.uid = uid, !.email = email,
                              !.status = 400, !.err = "email required"])
            /\ UNCHANGED openSess
       ELSE LET s == get_session(r)
                user == Get(table, uid)
            IN IF user = NoUser
               THEN /\ Complete(r, [IdleReq EXCEPT !.op = "update", !.via = "api",
                                      !.pc = "done", !.uid = uid, !.email = email,
                                      !.opened = TRUE, !.sid = 0, !.found = Matched(table, uid),
                                      !.tx = SessionExit("begun"),
                                      !.status = 404, !.err = "not found"])
                    /\ openSess' = Close(openSess \cup {s}, s)
               ELSE /\ Step(r, [IdleReq EXCEPT !.op = "update", !.via = "api",
                                  !.pc = "commit", !.uid = uid, !.email = email,
                                  !.opened = TRUE, !.sid = s,
                                  !.found = Matched(table, uid),
                                  !.user = user, !.tx = "begun"])
                    /\ openSess' = openSess \cup {s}
    /\ UNCHANGED <<table, nextId>>

\* A flush that does not compare the UPDATE's row count with the one expected.
UpdateFlush_NoRowCount(t, user, email) ==
    IF user.email = email THEN "none"
    ELSE IF UpdateRejected(t, user.id, email) THEN "IntegrityError"
    ELSE "ok"

\* The flush of session.commit() for a loaded user\* The flush of session.commit() for a loaded user whose email was assigned:
\* no statement when the value is the one loaded; otherwise the UPDATE, which
\* raises StaleDataError when it matches no row and IntegrityError when the
\* unique index rejects the value.
UpdateFlush(t, user, email) ==
    IF user.email = email THEN "none"
    ELSE IF ~UpdateMatches(t, user.id) THEN "StaleDataError"
    ELSE IF UpdateRejected(t, user.id, email) THEN "IntegrityError"
    ELSE "ok"

\* session.add(user); session.commit(); return jsonify(user.to_dict())
ApiUpdateCommit(r) ==
    /\ req[r].pc = "commit" /\ req[r].op = "update" /\ req[r].via = "api"
    /\ LET q == req[r]
           flush == UpdateFlush(table, q.user, q.email)
           failed == flush \in {"StaleDataError", "IntegrityError"}
           t2 == IF flush = "ok" THEN UpdateEmail(table, q.user.id, q.email) ELSE table
           user == [q.user EXCEPT !.email = q.email]
           tx == IF failed THEN "rollback" ELSE "commit"
           exc == IF failed THEN flush
                  ELSE IF ~HasToDict THEN "AttributeError" ELSE "none"
       IN /\ table' = t2
          /\ Complete(r, [q EXCEPT !.pc = "done", !.sid = 0,
                            !.dup = (\E u \in table : u.id # q.uid /\ u.email = q.email),
                            !.gone = (q.uid \notin {u.id : u \in table}),
                            !.wrote = (t2 # table),
                            !.tx = SessionExit(tx),
                            !.exc = exc,
                            !.status = IF exc = "none" THEN 200 ELSE 500,
                            !.err = IF exc = "none" THEN "" ELSE "Internal Server Error",
                            !.body = IF exc = "none" THEN <<to_dict(user)>> ELSE <<>>])
    /\ openSess' = Close(openSess, req[r].sid)
    /\ UNCHANGED nextId

\* ------------------------------- DELETE /users/<id> (delete_user_api)
\* user = session.get(User, user_id): 404 when there is none, else
\* session.delete(user) and the request goes on to its commit.
ApiDeleteGet(r, uid) ==
    /\ req[r].pc = "idle"
    /\ LET s == get_session(r)
           user == Get(table, uid)
       IN IF user = NoUser
          THEN /\ Complete(r, [IdleReq EXCEPT !.op = "delete", !.via = "api",
                                 !.pc = "done", !.uid = uid,
                                 !.opened = TRUE, !.sid = 0, !.found = Matched(table, uid),
                                 !.tx = SessionExit("begun"),
                                 !.status = 404, !.err = "not found"])
               /\ openSess' = Close(openSess \cup {s}, s)
          ELSE /\ Step(r, [IdleReq EXCEPT !.op = "delete", !.via = "api",
                             !.pc = "commit", !.uid = uid,
                             !.opened = TRUE, !.sid = s,
                             !.found = Matched(table, uid),
                                  !.user = user, !.tx = "begun"])
               /\ openSess' = openSess \cup {s}
    /\ UNCHANGED <<table, nextId>>

\* session.commit(); return ("", 204).  A DELETE that matches no row only
\* warns.
ApiDeleteCommit(r) ==
    /\ req[r].pc = "commit" /\ req[r].op = "delete" /\ req[r].via = "api"
    /\ LET q == req[r]
           t2 == DeleteRow(table, q.user.id)
       IN /\ table' = t2
          /\ Complete(r, [q EXCEPT !.pc = "done", !.sid = 0,
                            !.gone = (q.uid \notin {u.id : u \in table}),
                            !.wrote = (t2 # table),
                            !.tx = SessionExit("commit"),
                            !.status = 204])
    /\ openSess' = Close(openSess, req[r].sid)
    /\ UNCHANGED nextId

\* ------------------------------------------------ main.py: create_user
\* with session_scope(): session.add(user); session.flush(); return user.
\* The flush sends the INSERT; the scope commits on the way out.
LibCreate(r, name, email) ==
    /\ req[r].pc = "idle"
    /\ nextId <= MaxId
    /\ LET s == NewSession(r)
           rejected == InsertRejected(table, email)
           t2 == IF rejected THEN table ELSE Insert(table, nextId, name, email)
           user == [id |-> nextId, name |-> name, email |-> email]
       IN /\ table' = t2
          /\ openSess' = Close(openSess \cup {s}, s)
          /\ Complete(r, [IdleReq EXCEPT !.op = "create", !.via = "lib",
                            !.pc = "done", !.name = name, !.email = email,
                            !.opened = TRUE, !.sid = 0,
                            !.user = IF rejected THEN NoUser ELSE user,
                            !.dup = (email \in {u.email : u \in table}),
                            !.wrote = (t2 # table),
                            !.tx = session_scope(rejected),
                            !.exc = IF rejected THEN "IntegrityError" ELSE "none",
                            !.ret = IF rejected THEN "raise" ELSE "user"])
    /\ nextId' = nextId + 1

\* ------------------------------------------------- main.py: list_users
LibList(r) ==
    /\ req[r].pc = "idle"
    /\ LET s == NewSession(r)
       IN /\ openSess' = Close(openSess \cup {s}, s)
          /\ Complete(r, [IdleReq EXCEPT !.op = "list", !.via = "lib", !.pc = "done",
                            !.opened = TRUE, !.sid = 0,
                            !.tx = session_scope(FALSE),
                            !.body = ScanOrder(table),
                            !.ret = "list"])
    /\ UNCHANGED <<table, nextId>>

\* ------------------------------------------- main.py: update_user_email
LibUpdateGet(r, uid, email) ==
    /\ req[r].pc = "idle"
    /\ LET s == NewSession(r)
           user == Get(table, uid)
       IN IF user = NoUser
          THEN /\ Complete(r, [IdleReq EXCEPT !.op = "update", !.via = "lib",
                                 !.pc = "done", !.uid = uid, !.email = email,
                                 !.opened = TRUE, !.sid = 0,
                                 !.found = Matched(table, uid),
                                 !.tx = session_scope(FALSE),
                                 !.ret = "None"])
               /\ openSess' = Close(openSess \cup {s}, s)
          ELSE /\ Step(r, [IdleReq EXCEPT !.op = "update", !.via = "lib",
                             !.pc = "commit", !.uid = uid, !.email = email,
                             !.opened = TRUE, !.sid = s,
                             !.found = Matched(table, uid),
                             !.user = user, !.tx = "begun"])
               /\ openSess' = openSess \cup {s}
    /\ UNCHANGED <<table, nextId>>

LibUpdateCommit(r) ==
    /\ req[r].pc = "commit" /\ req[r].op = "update" /\ req[r].via = "lib"
    /\ LET q == req[r]
           flush == UpdateFlush(table, q.user, q.email)
           failed == flush \in {"StaleDataError", "IntegrityError"}
           t2 == IF flush = "ok" THEN UpdateEmail(table, q.user.id, q.email) ELSE table
       IN /\ table' = t2
          /\ Complete(r, [q EXCEPT !.pc = "done", !.sid = 0,
                            !.dup = (\E u \in table : u.id # q.uid /\ u.email = q.email),
                            !.gone = (q.uid \notin {u.id : u \in table}),
                            !.wrote = (t2 # table),
                            !.tx = session_scope(failed),
                            !.exc = IF failed THEN flush ELSE "none",
                            !.ret = IF failed THEN "raise" ELSE "user"])
    /\ openSess' = Close(openSess, req[r].sid)
    /\ UNCHANGED nextId

\* ------------------------------------------------ main.py: delete_user
LibDeleteGet(r, uid) ==
    /\ req[r].pc = "idle"
    /\ LET s == NewSession(r)
           user == Get(table, uid)
       IN IF user = NoUser
          THEN /\ Complete(r, [IdleReq EXCEPT !.op = "delete", !.via = "lib",
                                 !.pc = "done", !.uid = uid,
                                 !.opened = TRUE, !.sid = 0,
                                 !.found = Matched(table, uid),
                                 !.tx = session_scope(FALSE),
                                 !.ret = "False"])
               /\ openSess' = Close(openSess \cup {s}, s)
          ELSE /\ Step(r, [IdleReq EXCEPT !.op = "delete", !.via = "lib",
                             !.pc = "commit", !.uid = uid,
                             !.opened = TRUE, !.sid = s,
                             !.found = Matched(table, uid),
                             !.user = user, !.tx = "begun"])
               /\ openSess' = openSess \cup {s}
    /\ UNCHANGED <<table, nextId>>

LibDeleteCommit(r) ==
    /\ req[r].pc = "commit" /\ req[r].op = "delete" /\ req[r].via = "lib"
    /\ LET q == req[r]
           t2 == DeleteRow(table, q.user.id)
       IN /\ table' = t2
          /\ Complete(r, [q EXCEPT !.pc = "done", !.sid = 0,
                            !.gone = (q.uid \notin {u.id : u \in table}),
                            !.wrote = (t2 # table),
                            !.tx = session_scope(FALSE),
                            !.ret = "True"])
    /\ openSess' = Close(openSess, req[r].sid)
    /\ UNCHANGED nextId

Next ==
    \E r \in Reqs :
        \/ ApiList(r)
        \/ \E n \in NameInputs, e \in EmailInputs : ApiCreate(r, n, e)
        \/ \E i \in IdInputs, e \in EmailInputs : ApiUpdateGet(r, i, e)
        \/ ApiUpdateCommit(r)
        \/ \E i \in IdInputs : ApiDeleteGet(r, i)
        \/ ApiDeleteCommit(r)

\* The HTTP service of flask_mysql.py.
Spec == Init /\ [][Next]_vars

\* The functions of main.py, called with the strings a caller passes.
NextMain ==
    \E r \in Reqs :
        \/ \E n \in NameInputs \ {None}, e \in EmailInputs \ {None} : LibCreate(r, n, e)
        \/ LibList(r)
        \/ \E i \in IdInputs, e \in EmailInputs \ {None} : LibUpdateGet(r, i, e)
        \/ LibUpdateCommit(r)
        \/ \E i \in IdInputs : LibDeleteGet(r, i)
        \/ LibDeleteCommit(r)

SpecMain == Init /\ [][NextMain]_vars

\* ------------------------------------------------------------ the claims
Returned(op) == last.pc = "done" /\ last.via = "api" /\ last.op = op

TypeOK ==
    /\ \A u \in table : u.id \in Ids /\ u.name \in NameInputs /\ u.email \in EmailInputs
    /\ UniqueIds(table)
    /\ nextId \in 1..(MaxId + 1)
    /\ openSess \subseteq Reqs
    /\ \A r \in Reqs : req[r].pc \in {"idle", "commit"}
    /\ last.pc \in {"idle", "done"}

\* C1: a Create with non-empty name and email whose email no row holds
\* answers 201 with the serialized record of the row it stored, under a
\* positive id.
C1_CreateAnswers201 ==
    (Returned("create") /\ ~Falsy(last.name) /\ ~Falsy(last.email) /\ ~last.dup)
        => /\ last.status = 201
           /\ Len(last.body) = 1
           /\ last.body[1].id > 0
           /\ last.body[1].name = last.name
           /\ last.body[1].email = last.email
           /\ last.body[1] \in table

\* C2: no two rows of the table ever have the same email, and a Create whose
\* email an existing row already holds fails with a server error and leaves
\* the rows as they were.
C2_EmailUnique ==
    /\ UniqueEmails(table)
    /\ (Returned("create") /\ last.dup)
           => (last.status = 500 /\ ~last.wrote /\ last.tx = "rollback")

C2_Witness ==
    /\ Returned("create") /\ last.dup /\ last.status = 500
    /\ \E u \in table : u.email = last.email

\* C3: an operation that answers with a failure (4xx, 5xx) has changed
\* nothing in the table, and a write operation that answers with a success
\* (2xx) has committed.
C3_FailureChangesNothing ==
    last.pc = "done"
        => /\ last.status >= 400 => ~last.wrote
           /\ (last.status \in 200..299 /\ last.op # "list") => last.tx = "commit"

\* C4 as stated: a session whose operation body completes without an
\* exception has been committed.
C4_CommittedOnNormalExit ==
    (last.pc = "done" /\ last.opened /\ last.exc = "none") => last.tx = "commit"

\* C4, amended: the session a handler opens is closed when the handler
\* returns, on every path; no two requests in flight hold the same session
\* and no session stays open without a request in flight; the transaction is
\* committed exactly when a Create, Update or Delete reaches its commit and
\* the flush is accepted, and every other session (List, the 404 return, a
\* rejected flush) is ended by the close with nothing written.
C4_SessionScoped ==
    /\ openSess = {req[r].sid : r \in {x \in Reqs : req[x].pc # "idle"}}
    /\ \A r1, r2 \in Reqs :
           (req[r1].pc # "idle" /\ req[r2].pc # "idle" /\ r1 # r2)
               => req[r1].sid # req[r2].sid
    /\ \A r \in Reqs : req[r].pc # "idle" => (req[r].sid # 0 /\ req[r].tx = "begun")
    /\ (last.pc = "done" /\ last.via = "api")
           => /\ last.sid = 0
              /\ last.opened => last.tx \in {"commit", "rollback"}
              /\ ~last.opened => (last.tx = "none" /\ last.status = 400)
              /\ last.wrote => last.tx = "commit"
              /\ last.tx = "commit"
                     <=> /\ last.op \in {"create", "update", "delete"}
                         /\ last.status \notin {400, 404}
                         /\ last.exc \notin {"IntegrityError", "StaleDataError"}

C4_Witness ==
    /\ Returned("delete") /\ last.status = 404 /\ last.tx = "rollback"
    /\ \E r \in Reqs : req[r].pc = "commit" /\ req[r].sid \in openSess

\* C5: a Create whose name or email is missing or empty answers 400 with an
\* error body, opens no session and creates no row.
C5_InvalidCreate400 ==
    (Returned("create") /\ (Falsy(last.name) \/ Falsy(last.email)))
        => /\ last.status = 400
           /\ last.err # ""
           /\ ~last.opened /\ last.tx = "none"
           /\ ~last.wrote
           /\ last.user = NoUser

C5_Witness ==
    /\ Returned("create") /\ last.status = 400
    /\ Falsy(last.name) /\ ~Falsy(last.email)
    /\ table # {}

\* C6: an Update of an existing id answers 200 with the serialized record
\* carrying the new email, and the stored row has the new email.
C6_UpdateAnswers200 ==
    (Returned("update") /\ ~Falsy(last.email) /\ last.found = "yes"
        /\ ~last.dup /\ ~last.gone)
        => /\ last.status = 200
           /\ last.body = <<[id |-> last.uid, name |-> last.user.name,
                             email |-> last.email]>>
           /\ Get(table, last.uid).email = last.email

\* C7: an Update with a non-empty email whose id matches no row answers 404
\* and leaves the table as it was.
C7_UpdateUnknown404 ==
    (Returned("update") /\ ~Falsy(last.email) /\ last.found = "no")
        => /\ last.status = 404
           /\ ~last.wrote
           /\ last.tx = "rollback"
           /\ last.uid \notin IdsOf(table)

C7_Witness ==
    /\ Returned("update") /\ last.status = 404 /\ ~Falsy(last.email)
    /\ table # {} /\ last.uid \notin IdsOf(table)

\* What a returned Delete has done: 204 with an empty body and the id gone
\* when the lookup matched, 404 and nothing written when it did not.
C8_DeleteReturned ==
    Returned("delete")
        => /\ last.found = "yes"
               => /\ last.status = 204 /\ last.body = <<>> /\ last.err = ""
                  /\ last.tx = "commit"
                  /\ last.uid \notin IdsOf(table)
           /\ last.found = "no"
               => /\ last.status = 404 /\ ~last.wrote
                  /\ last.uid \notin IdsOf(table)

\* What a step does: the commit of a Delete removes the row of its id and no
\* other; an id handed out and absent stays absent; a List that answers 200
\* holds only ids of stored rows.
C8_DeleteStep ==
    /\ \A r \in Reqs :
           (req[r].op = "delete" /\ req[r].pc = "commit" /\ req'[r].pc = "idle")
               => table' = {u \in table : u.id # req[r].uid}
    /\ \A i \in Ids : (i < nextId /\ i \notin IdsOf(table)) => i \notin IdsOf(table')
    /\ (Returned("list")' /\ last'.status = 200)
           => \A i \in 1..Len(last'.body) : last'.body[i].id \in IdsOf(table')

\* C8: a Delete of an id that exists answers 204 with an empty body and
\* removes that row and no other; the id is in no later state of the table
\* (so no later List holds it), and a Delete of an id that matches no row
\* answers 404 and changes nothing.
C8_DeleteRemovesRow == []C8_DeleteReturned /\ [][C8_DeleteStep]_vars

C8_Witness ==
    /\ Returned("delete") /\ last.status = 204 /\ last.wrote
    /\ table # {}

\* C9: List answers with one serialized record per stored row.
C9_ListReturnsRows ==
    Returned("list")
        => /\ last.status = 200
           /\ Len(last.body) = Cardinality(table)
           /\ {last.body[i] : i \in 1..Len(last.body)} = table

\* C10 as stated: every Update whose email is non-empty and whose id matched
\* a row at the lookup mutates the email and commits.
C10_UpdateAlwaysCommits ==
    (Returned("update") /\ ~Falsy(last.email) /\ last.found = "yes")
        => (last.tx = "commit" /\ last.exc \notin {"IntegrityError", "StaleDataError"})

\* C10, amended: Update has four outcomes.  400 when the email is missing or
\* empty; 404 when no row matches the id at the lookup; a server error that
\* leaves the table as it was when the new email differs from the loaded one
\* and, at the commit, the row is gone or another row holds that email;
\* otherwise the transaction commits, and the row then holds the new email.
C10_UpdateOutcomes ==
    Returned("update")
        => /\ Falsy(last.email)
               => (last.status = 400 /\ ~last.opened /\ ~last.wrote)
           /\ (~Falsy(last.email) /\ last.found = "no")
               => (last.status = 404 /\ ~last.wrote)
           /\ (~Falsy(last.email) /\ last.found = "yes")
               => IF last.user.email = last.email
                  THEN last.tx = "commit" /\ ~last.wrote
                  ELSE IF last.gone \/ last.dup
                  THEN /\ last.status = 500 /\ ~last.wrote /\ last.tx = "rollback"
                       /\ last.exc = IF last.gone THEN "StaleDataError"
                                     ELSE "IntegrityError"
                  ELSE /\ last.tx = "commit"
                       /\ [id |-> last.uid, name |-> last.user.name,
                           email |-> last.email] \in table

C10_Witness ==
    /\ Returned("update") /\ last.found = "yes" /\ last.dup
    /\ last.status = 500 /\ last.exc = "IntegrityError"

\* ------------------------------------------------- main.py, under SpecMain
\* session_scope commits whenever the body does not raise, also on the early
\* return of an unmatched id, rolls back when the flush raises, and leaves no
\* session open; the unique index holds here as well.
Main_SessionScope ==
    /\ UniqueEmails(table)
    /\ openSess = {req[r].sid : r \in {x \in Reqs : req[x].pc # "idle"}}
    /\ (last.pc = "done" /\ last.via = "lib")
           => /\ last.sid = 0 /\ last.opened
              /\ last.tx = "commit" <=> last.exc = "none"
              /\ last.tx = "rollback" <=> last.exc # "none"
              /\ last.exc # "none" => ~last.wrote

====
